---- MODULE Spec2Model ----
(***************************************************************************)
(* time-mcp: the CallTool request handler of src/src/index.ts, its six     *)
(* argument validators, its six calculation functions and runServer.       *)
(*                                                                         *)
(* Strings that arrive as tool arguments are sequences of one-character    *)
(* strings, so that String.prototype.trim and the date parser are          *)
(* computed; strings the program produces are TLC strings built with \o,   *)
(* the way the template literals of the source build them.                 *)
(* The dayjs calls of the source are modelled by what the library does on  *)
(* the inputs of this model (UTC host, four IANA zones, year 2025 rules).  *)
(***************************************************************************)
EXTENDS Integers, Sequences, FiniteSets, TLC

VARIABLES
    phase,      \* "init" | "connecting" | "running" | "failed" | "exited": position
                \* of runServer
    exitCode,   \* -1 while the process lives, else the status given to process.exit
    stdout,     \* lines written to process.stdout
    stderr,     \* lines written to process.stderr
    now,        \* the wall clock, seconds since the epoch
    nCalls,     \* tool invocations delivered to the CallTool handler
    nReplies,   \* envelopes returned by the CallTool handler
    last,       \* the most recent invocation with what the handler did for it
    fmtIn,      \* formatTimeDifference applied on its own: the argument
    fmtOut,     \* ... and the string it returned ("" before the call)
    inflight    \* requests dispatched concurrently, by request id, each with what
                \* its own run of the handler did

vars ==
    <<phase, exitCode, stdout, stderr, now, nCalls, nReplies, last, fmtIn, fmtOut, inflight>>

---------------------------------------------------------------------------
(* Bounds *)

MaxCalls == 3
MaxElapsed == 2
MaxDiff == 400
MaxInFlight == 2

---------------------------------------------------------------------------
(* JavaScript strings and values *)

Whitespace == {" ", "\t", "\n"}

RECURSIVE trimStart(_)
trimStart(s) ==
    IF s # <<>> /\ Head(s) \in Whitespace THEN trimStart(Tail(s)) ELSE s

RECURSIVE trimEnd(_)
trimEnd(s) ==
    IF s # <<>> /\ s[Len(s)] \in Whitespace
    THEN trimEnd(SubSeq(s, 1, Len(s) - 1))
    ELSE s

trim(s) == trimEnd(trimStart(s))

\* ${s} in a template literal: the characters of s, concatenated
RECURSIVE Text(_)
Text(s) == IF s = <<>> THEN "" ELSE Head(s) \o Text(Tail(s))

\* a JSON value of an argument field; "absent" when the mapping has no such key
Absent == [t |-> "absent", s |-> <<>>]
JNull == [t |-> "null", s |-> <<>>]
JNumber == [t |-> "number", s |-> <<>>]
JString(s) == [t |-> "string", s |-> s]

typeof(v) ==
    CASE v.t = "string" -> "string"
      [] v.t = "number" -> "number"
      [] v.t = "null" -> "object"
      [] OTHER -> "undefined"

\* truthiness of a field value: undefined, null and "" are falsy
truthy(v) ==
    CASE v.t = "string" -> v.s # <<>>
      [] v.t = "number" -> TRUE
      [] OTHER -> FALSE

Fields == {"format", "timezone", "time", "date", "sourceTimezone", "targetTimezone"}

NoFields == [k \in Fields |-> Absent]

\* request.params.arguments: absent, null, a primitive, an array or a mapping
ArgsUndefined == [kind |-> "undefined", f |-> NoFields]
ArgsNull == [kind |-> "null", f |-> NoFields]
ArgsPrimitive == [kind |-> "primitive", f |-> NoFields]
ArgsArray == [kind |-> "array", f |-> NoFields]
ArgsObject(f) == [kind |-> "object", f |-> f]

typeofArgs(args) ==
    CASE args.kind = "undefined" -> "undefined"
      [] args.kind = "primitive" -> "string"
      [] OTHER -> "object"

\* 'k' in args, for args an object
has(args, k) == args.f[k].t # "absent"

---------------------------------------------------------------------------
(* Calendar arithmetic of the date library (proleptic Gregorian, UTC) *)

DaysFromCivil(y, m, d) ==
    LET yy == IF m <= 2 THEN y - 1 ELSE y
        era == yy \div 400
        yoe == yy - era * 400
        mp == IF m > 2 THEN m - 3 ELSE m + 9
        doy == (153 * mp + 2) \div 5 + d - 1
        doe == yoe * 365 + yoe \div 4 - yoe \div 100 + doy
    IN era * 146097 + doe - 719468

CivilFromDays(z0) ==
    LET z == z0 + 719468
        era == z \div 146097
        doe == z - era * 146097
        yoe == (doe - doe \div 1460 + doe \div 36524 - doe \div 146096) \div 365
        doy == doe - (365 * yoe + yoe \div 4 - yoe \div 100)
        mp == (5 * doy + 2) \div 153
        d == doy - (153 * mp + 2) \div 5 + 1
        m == IF mp < 10 THEN mp + 3 ELSE mp - 9
        y == yoe + era * 400 + (IF m <= 2 THEN 1 ELSE 0)
    IN [y |-> y, m |-> m, d |-> d]

EpochOf(y, m, d, hh, mi, ss) ==
    DaysFromCivil(y, m, d) * 86400 + hh * 3600 + mi * 60 + ss

\* the calendar fields of a local time given in seconds
Civil(local) ==
    LET c == CivilFromDays(local \div 86400)
        r == local % 86400
    IN [y |-> c.y, m |-> c.m, d |-> c.d,
        hh |-> r \div 3600, mi |-> (r % 3600) \div 60, ss |-> r % 60]

\* day of the week of a day number, Sunday = 0 (1970-01-01 was a Thursday)
Weekday(days) == (days + 4) % 7

IsLeap(y) == (y % 4 = 0 /\ y % 100 # 0) \/ y % 400 = 0

MonthLength(y, m) ==
    CASE m = 2 -> IF IsLeap(y) THEN 29 ELSE 28
      [] m \in {4, 6, 9, 11} -> 30
      [] OTHER -> 31

---------------------------------------------------------------------------
(* Argument strings of the model *)

UTC == <<"U", "T", "C">>
Kolkata == <<"A", "s", "i", "a", "/", "K", "o", "l", "k", "a", "t", "a">>
Kathmandu == <<"A", "s", "i", "a", "/", "K", "a", "t", "h", "m", "a", "n", "d", "u">>
NewYork == <<"A", "m", "e", "r", "i", "c", "a", "/", "N", "e", "w", "_", "Y", "o", "r", "k">>
BogusZone == <<"M", "a", "r", "s", "/", "P", "h", "o", "b", "o", "s">>
Empty == <<>>
Blank == <<" ", "\t">>
T0 == <<"1", "9", "8", "5", "-", "0", "6", "-", "0", "1", "T", "1", "2", ":", "0", "0", ":", "0", "0">>
T1 == <<"2", "0", "2", "5", "-", "1", "0", "-", "1", "7", "T", "0", "0", ":", "0", "0", ":", "0", "0">>
T2 == <<"2", "0", "2", "5", "-", "1", "1", "-", "0", "2", "T", "0", "6", ":", "0", "0", ":", "0", "0">>
Garbage == <<"n", "o", "t", "-", "a", "-", "d", "a", "t", "e">>
D1 == <<"2", "0", "2", "4", "-", "0", "2", "-", "1", "0">>
D2 == <<"2", "0", "2", "5", "-", "0", "1", "-", "0", "1">>
FullPattern == <<"Y", "Y", "Y", "Y", "-", "M", "M", "-", "D", "D", " ", "H", "H", ":", "m", "m", ":", "s", "s">>
ShortPattern == <<"H", "H", ":", "m", "m">>

---------------------------------------------------------------------------
(* The date library: parsing *)

DigitChars == <<"0", "1", "2", "3", "4", "5", "6", "7", "8", "9">>

IsDigit(c) == \E i \in 1..10 : DigitChars[i] = c

DigitVal(c) == (CHOOSE i \in 1..10 : DigitChars[i] = c) - 1

\* the number written by the n digits of s that start at position i
RECURSIVE NumAt(_, _, _)
NumAt(s, i, n) ==
    IF n = 0 THEN 0 ELSE NumAt(s, i, n - 1) * 10 + DigitVal(s[i + n - 1])

DigitsAt(s, idx) == \A i \in idx : IsDigit(s[i])

\* YYYY-MM-DD
IsDateShape(s) ==
    /\ Len(s) = 10
    /\ DigitsAt(s, {1, 2, 3, 4, 6, 7, 9, 10})
    /\ s[5] = "-" /\ s[8] = "-"

\* YYYY-MM-DDTHH:mm:ss
IsDateTimeShape(s) ==
    /\ Len(s) = 19
    /\ DigitsAt(s, {1, 2, 3, 4, 6, 7, 9, 10, 12, 13, 15, 16, 18, 19})
    /\ s[5] = "-" /\ s[8] = "-" /\ s[11] \in {"T", " "}
    /\ s[14] = ":" /\ s[17] = ":"

InvalidDate == [valid |-> FALSE, s |-> 0, off |-> 0]

\* the calendar fields a string names, read as UTC; anything that is not an
\* ISO date or date-time is an Invalid Date
parseDate(s) ==
    IF IsDateTimeShape(s)
    THEN [valid |-> TRUE, off |-> 0,
          s |-> EpochOf(NumAt(s, 1, 4), NumAt(s, 6, 2), NumAt(s, 9, 2),
                        NumAt(s, 12, 2), NumAt(s, 15, 2), NumAt(s, 18, 2))]
    ELSE IF IsDateShape(s)
    THEN [valid |-> TRUE, off |-> 0,
          s |-> EpochOf(NumAt(s, 1, 4), NumAt(s, 6, 2), NumAt(s, 9, 2), 0, 0, 0)]
    ELSE InvalidDate

---------------------------------------------------------------------------
(* The date library: zones *)

KnownZones == {UTC, Kolkata, Kathmandu, NewYork}

HostZone == UTC

\* minutes east of UTC of a zone at an instant
ZoneOffset(zone, s) ==
    CASE zone = Kolkata -> 330
      [] zone = Kathmandu ->
            \* Nepal moved from UTC+5:30 to UTC+5:45 on 1986-01-01 local time
            IF s >= EpochOf(1985, 12, 31, 18, 30, 0) THEN 345 ELSE 330
      [] zone = NewYork ->
            IF s >= EpochOf(2025, 3, 9, 7, 0, 0) /\ s < EpochOf(2025, 11, 2, 6, 0, 0)
            THEN -240
            ELSE -300
      [] OTHER -> 0

\* what a call returned or threw, with the clock readings it made and the
\* library steps it took
Ret(v, reads, trace) ==
    [ok |-> TRUE, val |-> v, msg |-> "", reads |-> reads, trace |-> trace]
Thrown(m, reads, trace) ==
    [ok |-> FALSE, val |-> "", msg |-> m, reads |-> reads, trace |-> trace]

dayjsUtc(s) == parseDate(s)

dayjsUtcNow(r) == [valid |-> TRUE, s |-> r, off |-> 0]

dayjsLocal(s) ==
    LET p == parseDate(s)
    IN IF p.valid
       THEN [valid |-> TRUE, off |-> ZoneOffset(HostZone, p.s),
             s |-> p.s - 60 * ZoneOffset(HostZone, p.s)]
       ELSE InvalidDate

dayjsNow(r) == [valid |-> TRUE, s |-> r, off |-> ZoneOffset(HostZone, r)]

isValid(d) == d.valid

utcOffset(d) == d.off

\* d.tz(zone): an Invalid Date stays one, an unknown zone identifier throws
\* the RangeError of Intl.DateTimeFormat
tz(d, zone) ==
    IF ~d.valid THEN [ok |-> TRUE, val |-> InvalidDate, msg |-> ""]
    ELSE IF zone \notin KnownZones
    THEN [ok |-> FALSE, val |-> InvalidDate,
          msg |-> "Invalid time zone specified: " \o Text(zone)]
    ELSE [ok |-> TRUE, msg |-> "",
          val |-> [valid |-> TRUE, s |-> d.s, off |-> ZoneOffset(zone, d.s)]]

---------------------------------------------------------------------------
(* The date library: formatting and calendar queries *)

Pad2(n) == IF n < 10 THEN "0" \o ToString(n) ELSE ToString(n)

Pad4(n) ==
    IF n < 10 THEN "000" \o ToString(n)
    ELSE IF n < 100 THEN "00" \o ToString(n)
    ELSE IF n < 1000 THEN "0" \o ToString(n)
    ELSE ToString(n)

StartsWith(p, tok) == Len(p) >= Len(tok) /\ SubSeq(p, 1, Len(tok)) = tok

Drop(p, n) == SubSeq(p, n + 1, Len(p))

\* the tokens YYYY MM DD HH mm ss of a pattern replaced by the fields c,
\* every other character copied
RECURSIVE FormatFields(_, _)
FormatFields(p, c) ==
    IF p = <<>> THEN ""
    ELSE IF StartsWith(p, <<"Y", "Y", "Y", "Y">>) THEN Pad4(c.y) \o FormatFields(Drop(p, 4), c)
    ELSE IF StartsWith(p, <<"M", "M">>) THEN Pad2(c.m) \o FormatFields(Drop(p, 2), c)
    ELSE IF StartsWith(p, <<"D", "D">>) THEN Pad2(c.d) \o FormatFields(Drop(p, 2), c)
    ELSE IF StartsWith(p, <<"H", "H">>) THEN Pad2(c.hh) \o FormatFields(Drop(p, 2), c)
    ELSE IF StartsWith(p, <<"m", "m">>) THEN Pad2(c.mi) \o FormatFields(Drop(p, 2), c)
    ELSE IF StartsWith(p, <<"s", "s">>) THEN Pad2(c.ss) \o FormatFields(Drop(p, 2), c)
    ELSE Head(p) \o FormatFields(Tail(p), c)

\* d.format(pattern): the local time of d, that is its instant shifted by its offset
format(d, p) ==
    IF ~d.valid THEN "Invalid Date" ELSE FormatFields(p, Civil(d.s + 60 * d.off))

\* a JavaScript number that may be NaN
NaN == [nan |-> TRUE, n |-> 0]
Number(n) == [nan |-> FALSE, n |-> n]

NumberText(v) == IF v.nan THEN "NaN" ELSE ToString(v.n)

\* d.valueOf() in a template literal: milliseconds, the seconds followed by 000
valueOfText(d) ==
    IF ~d.valid THEN "NaN"
    ELSE IF d.s = 0 THEN "0"
    ELSE ToString(d.s) \o "000"

daysInMonth(d) ==
    IF ~d.valid THEN NaN
    ELSE LET c == Civil(d.s + 60 * d.off) IN Number(MonthLength(c.y, c.m))

\* the week of the year, weeks starting on Sunday, week 1 holding January 1st
week(d) ==
    IF ~d.valid THEN NaN
    ELSE LET local == d.s + 60 * d.off
             day == local \div 86400
             c == CivilFromDays(day)
             endOfWeek == day + (6 - Weekday(day))
             nextJan1 == DaysFromCivil(c.y + 1, 1, 1)
             jan1 == DaysFromCivil(c.y, 1, 1)
             startWeek == jan1 - Weekday(jan1)
         IN IF c.m = 12 /\ c.d > 25 /\ nextJan1 <= endOfWeek
            THEN Number(1)
            ELSE Number((day - startWeek) \div 7 + 1)

\* Monday = 1 .. Sunday = 7
isoWeekday(day) == IF Weekday(day) = 0 THEN 7 ELSE Weekday(day)

\* the ISO-8601 week: weeks counted from the one of the year's first Thursday
isoWeek(d) ==
    IF ~d.valid THEN NaN
    ELSE LET day == (d.s + 60 * d.off) \div 86400
             thursday == day + (4 - isoWeekday(day))
             isoYear == CivilFromDays(thursday).y
             jan1 == DaysFromCivil(isoYear, 1, 1)
             firstThursday ==
                jan1 + (4 - isoWeekday(jan1)) + (IF isoWeekday(jan1) > 4 THEN 7 ELSE 0)
         IN Number((thursday - firstThursday) \div 7 + 1)

Abs(n) == IF n < 0 THEN -n ELSE n

\* Math.round(a / b) for a >= 0, b > 0
RoundDiv(a, b) == a \div b + (IF 2 * (a % b) >= b THEN 1 ELSE 0)

\* d.fromNow() read at clock reading r: the relativeTime thresholds (months
\* and years by their mean length); an Invalid Date passes every threshold
\* but the last and reads "NaN years ago"
fromNow(d, r) ==
    IF ~d.valid THEN "NaN years ago"
    ELSE LET diff == d.s - r
             secs == Abs(diff)
             mins == RoundDiv(secs, 60)
             hours == RoundDiv(secs, 3600)
             days == RoundDiv(secs, 86400)
             months == RoundDiv(secs, 2629800)
             years == RoundDiv(secs, 31557600)
             out ==
                IF secs <= 44 THEN "a few seconds"
                ELSE IF secs <= 89 THEN "a minute"
                ELSE IF mins <= 44 THEN ToString(mins) \o " minutes"
                ELSE IF mins <= 89 THEN "an hour"
                ELSE IF hours <= 21
                THEN (IF hours <= 1 THEN "an hour" ELSE ToString(hours) \o " hours")
                ELSE IF hours <= 35 THEN "a day"
                ELSE IF days <= 25
                THEN (IF days <= 1 THEN "a day" ELSE ToString(days) \o " days")
                ELSE IF days <= 45 THEN "a month"
                ELSE IF months <= 10
                THEN (IF months <= 1 THEN "a month" ELSE ToString(months) \o " months")
                ELSE IF months <= 17 THEN "a year"
                ELSE IF years <= 1 THEN "a year"
                ELSE ToString(years) \o " years"
         IN IF diff > 0 THEN "in " \o out ELSE out \o " ago"

---------------------------------------------------------------------------
(* The calculation functions.  clk holds the values that the successive     *)
(* readings of the clock return during the call.                            *)

\* const c = v; F(c): v is evaluated once
Const(v, F(_)) == CHOOSE r \in {F(c) : c \in {v}} : TRUE

getCurrentTime(format_, timezone, clk) ==
    LET utcTime == dayjsUtcNow(clk[1])
        localTimezone == IF timezone.t \in {"absent", "null"} THEN HostZone ELSE timezone.s
    IN Const(tz(dayjsNow(clk[2]), localTimezone), LAMBDA localTime :
       IF ~localTime.ok
       THEN Thrown(localTime.msg, <<clk[1], clk[2]>>, <<>>)
       ELSE Ret([utc |-> format(utcTime, format_.s),
                 local |-> format(localTime.val, format_.s),
                 timezone |-> Text(localTimezone)],
                <<clk[1], clk[2]>>, <<>>))

getRelativeTime(time, clk) ==
    Ret(fromNow(dayjsLocal(time.s), clk[1]), <<clk[1]>>, <<>>)

getTimestamp(time, clk) ==
    IF truthy(time)
    THEN Ret(valueOfText(dayjsUtc(time.s)), <<>>, <<>>)
    ELSE Ret(valueOfText(dayjsNow(clk[1])), <<clk[1]>>, <<>>)

getDaysInMonth(date, clk) ==
    IF truthy(date)
    THEN Ret(daysInMonth(dayjsLocal(date.s)), <<>>, <<>>)
    ELSE Ret(daysInMonth(dayjsNow(clk[1])), <<clk[1]>>, <<>>)

getWeekOfYear(date, clk) ==
    IF truthy(date)
    THEN Ret([week |-> week(dayjsLocal(date.s)), isoWeek |-> isoWeek(dayjsLocal(date.s))],
             <<>>, <<>>)
    ELSE Ret([week |-> week(dayjsNow(clk[1])), isoWeek |-> isoWeek(dayjsNow(clk[2]))],
             <<clk[1], clk[2]>>, <<>>)

formatTimeDifferenceNonPositive(minutes) ==
    LET absMinutes == Abs(minutes)
        hours == absMinutes \div 60
        mins == absMinutes % 60
        sign == IF minutes > 0 THEN "+" ELSE "-"
    IN IF mins = 0
       THEN sign \o ToString(hours) \o " hour" \o (IF hours # 1 THEN "s" ELSE "")
       ELSE sign \o ToString(hours) \o " hour" \o (IF hours # 1 THEN "s" ELSE "")
            \o " " \o ToString(mins) \o " minute" \o (IF mins # 1 THEN "s" ELSE "")

formatTimeDifferenceHoursOnly(minutes) ==
    LET absMinutes == Abs(minutes)
        hours == absMinutes \div 60
        sign == IF minutes < 0 THEN "-" ELSE "+"
    IN sign \o ToString(hours) \o " hour" \o (IF hours # 1 THEN "s" ELSE "")

formatTimeDifferencePlural(minutes) ==
    LET absMinutes == Abs(minutes)
        hours == absMinutes \div 60
        mins == absMinutes % 60
        sign == IF minutes < 0 THEN "-" ELSE "+"
    IN IF mins = 0
       THEN sign \o ToString(hours) \o " hours"
       ELSE sign \o ToString(hours) \o " hours " \o ToString(mins) \o " minutes"

formatTimeDifference(minutes) ==
    LET absMinutes == Abs(minutes)
        hours == absMinutes \div 60
        mins == absMinutes % 60
        sign == IF minutes < 0 THEN "-" ELSE "+"
    IN IF mins = 0
       THEN sign \o ToString(hours) \o " hour" \o (IF hours # 1 THEN "s" ELSE "")
       ELSE sign \o ToString(hours) \o " hour" \o (IF hours # 1 THEN "s" ELSE "")
            \o " " \o ToString(mins) \o " minute" \o (IF mins # 1 THEN "s" ELSE "")

diffMinutesMagnitude(sourceOffsetMinutes, targetOffsetMinutes) ==
    Abs(targetOffsetMinutes - sourceOffsetMinutes)

diffMinutesSwapped(sourceOffsetMinutes, targetOffsetMinutes) ==
    sourceOffsetMinutes - targetOffsetMinutes

diffMinutes(sourceOffsetMinutes, targetOffsetMinutes) ==
    targetOffsetMinutes - sourceOffsetMinutes

hasValidTimeTruthy(time) == truthy(time)

hasValidTimeNever(time) == FALSE

\* time && time.trim() !== ''
hasValidTime(time) == truthy(time) /\ trim(time.s) # <<>>

convertTimeTwoReadings(sourceTimezone, targetTimezone, time, clk) ==
    IF trim(sourceTimezone.s) = <<>> \/ trim(targetTimezone.s) = <<>>
    THEN Thrown("Source and target timezones are required and cannot be empty", <<>>, <<>>)
    ELSE
    Const(IF hasValidTime(time) THEN <<>> ELSE <<clk[1]>>, LAMBDA reads :
    Const(IF hasValidTime(time) THEN dayjsUtc(time.s) ELSE dayjsUtcNow(clk[1]),
          LAMBDA momentInTime :
       IF ~isValid(momentInTime)
       THEN Thrown("Invalid time value provided: " \o Text(time.s), reads, <<>>)
       ELSE
       Const(tz(momentInTime, sourceTimezone.s), LAMBDA sourceTime :
          IF ~sourceTime.ok THEN Thrown(sourceTime.msg, reads, <<"tz">>)
          ELSE
          Const(tz(IF hasValidTime(time) THEN momentInTime ELSE dayjsUtcNow(clk[2]),
                   targetTimezone.s), LAMBDA targetTime :
             IF ~targetTime.ok THEN Thrown(targetTime.msg, reads, <<"tz", "tz">>)
             ELSE IF ~isValid(sourceTime.val) \/ ~isValid(targetTime.val)
             THEN Thrown("Invalid timezone conversion", reads, <<"tz", "tz">>)
             ELSE
             LET sourceOffsetMinutes == utcOffset(sourceTime.val)
                 targetOffsetMinutes == utcOffset(targetTime.val)
             IN Ret([sourceTime |-> format(sourceTime.val, FullPattern),
                     targetTime |-> format(targetTime.val, FullPattern),
                     timeDiff |-> formatTimeDifference(
                                     diffMinutes(sourceOffsetMinutes, targetOffsetMinutes))],
                    reads,
                    <<"tz", "tz", "utcOffset", "utcOffset", "format", "format">>)))))

convertTimeNoValidCheck(sourceTimezone, targetTimezone, time, clk) ==
    IF trim(sourceTimezone.s) = <<>> \/ trim(targetTimezone.s) = <<>>
    THEN Thrown("Source and target timezones are required and cannot be empty", <<>>, <<>>)
    ELSE
    Const(IF hasValidTime(time) THEN <<>> ELSE <<clk[1]>>, LAMBDA reads :
    Const(IF hasValidTime(time) THEN dayjsUtc(time.s) ELSE dayjsUtcNow(clk[1]),
          LAMBDA momentInTime :
       IF FALSE
       THEN Thrown("Invalid time value provided: " \o Text(time.s), reads, <<>>)
       ELSE
       Const(tz(momentInTime, sourceTimezone.s), LAMBDA sourceTime :
          IF ~sourceTime.ok THEN Thrown(sourceTime.msg, reads, <<"tz">>)
          ELSE
          Const(tz(momentInTime, targetTimezone.s), LAMBDA targetTime :
             IF ~targetTime.ok THEN Thrown(targetTime.msg, reads, <<"tz", "tz">>)
             ELSE IF ~isValid(sourceTime.val) \/ ~isValid(targetTime.val)
             THEN Thrown("Invalid timezone conversion", reads, <<"tz", "tz">>)
             ELSE
             LET sourceOffsetMinutes == utcOffset(sourceTime.val)
                 targetOffsetMinutes == utcOffset(targetTime.val)
             IN Ret([sourceTime |-> format(sourceTime.val, FullPattern),
                     targetTime |-> format(targetTime.val, FullPattern),
                     timeDiff |-> formatTimeDifference(
                                     diffMinutes(sourceOffsetMinutes, targetOffsetMinutes))],
                    reads,
                    <<"tz", "tz", "utcOffset", "utcOffset", "format", "format">>)))))

\* the try block of convertTime
convertTimeTry(sourceTimezone, targetTimezone, time, clk) ==
    IF trim(sourceTimezone.s) = <<>> \/ trim(targetTimezone.s) = <<>>
    THEN Thrown("Source and target timezones are required and cannot be empty", <<>>, <<>>)
    ELSE
    Const(IF hasValidTime(time) THEN <<>> ELSE <<clk[1]>>, LAMBDA reads :
    Const(IF hasValidTime(time) THEN dayjsUtc(time.s) ELSE dayjsUtcNow(clk[1]),
          LAMBDA momentInTime :
       IF ~isValid(momentInTime)
       THEN Thrown("Invalid time value provided: " \o Text(time.s), reads, <<>>)
       ELSE
       Const(tz(momentInTime, sourceTimezone.s), LAMBDA sourceTime :
          IF ~sourceTime.ok THEN Thrown(sourceTime.msg, reads, <<"tz">>)
          ELSE
          Const(tz(momentInTime, targetTimezone.s), LAMBDA targetTime :
             IF ~targetTime.ok THEN Thrown(targetTime.msg, reads, <<"tz", "tz">>)
             ELSE IF ~isValid(sourceTime.val) \/ ~isValid(targetTime.val)
             THEN Thrown("Invalid timezone conversion", reads, <<"tz", "tz">>)
             ELSE
             LET sourceOffsetMinutes == utcOffset(sourceTime.val)
                 targetOffsetMinutes == utcOffset(targetTime.val)
             IN Ret([sourceTime |-> format(sourceTime.val, FullPattern),
                     targetTime |-> format(targetTime.val, FullPattern),
                     timeDiff |-> formatTimeDifference(
                                     diffMinutes(sourceOffsetMinutes, targetOffsetMinutes))],
                    reads,
                    <<"tz", "tz", "utcOffset", "utcOffset", "format", "format">>)))))

convertTimeCatchBare(sourceTimezone, targetTimezone, thrown) == thrown

\* the catch block of convertTime
convertTimeCatch(sourceTimezone, targetTimezone, thrown) ==
    Thrown("Failed to convert time from " \o Text(sourceTimezone.s) \o " to "
              \o Text(targetTimezone.s) \o ": " \o thrown.msg,
           thrown.reads, thrown.trace)

convertTime(sourceTimezone, targetTimezone, time, clk) ==
    Const(convertTimeTry(sourceTimezone, targetTimezone, time, clk), LAMBDA r :
       IF r.ok THEN r ELSE convertTimeCatch(sourceTimezone, targetTimezone, r))

---------------------------------------------------------------------------
(* The argument validators *)

checkCurrentTimeArgs(args) ==
    /\ typeofArgs(args) = "object"
    /\ args.kind # "null"
    /\ has(args, "format")
    /\ typeof(args.f["format"]) = "string"
    /\ (IF has(args, "timezone") THEN typeof(args.f["timezone"]) = "string" ELSE TRUE)

checkRelativeTimeArgsParsing(args) ==
    /\ typeofArgs(args) = "object"
    /\ args.kind # "null"
    /\ has(args, "time")
    /\ typeof(args.f["time"]) = "string"
    /\ parseDate(args.f["time"].s).valid

checkRelativeTimeArgs(args) ==
    /\ typeofArgs(args) = "object"
    /\ args.kind # "null"
    /\ has(args, "time")
    /\ typeof(args.f["time"]) = "string"

checkDaysInMonthArgs(args) ==
    /\ typeofArgs(args) = "object"
    /\ args.kind # "null"
    /\ has(args, "date")
    /\ typeof(args.f["date"]) = "string"

checkTimestampArgs(args) ==
    IF args.kind \in {"undefined", "null"}
    THEN TRUE
    ELSE /\ typeofArgs(args) = "object"
         /\ (~has(args, "time") \/ typeof(args.f["time"]) = "string")

checkConvertTimeArgsLax(args) ==
    IF typeofArgs(args) # "object" \/ args.kind = "null" THEN FALSE
    ELSE IF ~has(args, "sourceTimezone") THEN FALSE
    ELSE IF ~has(args, "targetTimezone") \/ typeof(args.f["targetTimezone"]) # "string"
    THEN FALSE
    ELSE IF has(args, "time") /\ typeof(args.f["time"]) # "string" THEN FALSE
    ELSE TRUE

checkConvertTimeArgs(args) ==
    IF typeofArgs(args) # "object" \/ args.kind = "null" THEN FALSE
    ELSE IF ~has(args, "sourceTimezone") \/ typeof(args.f["sourceTimezone"]) # "string"
    THEN FALSE
    ELSE IF ~has(args, "targetTimezone") \/ typeof(args.f["targetTimezone"]) # "string"
    THEN FALSE
    ELSE IF has(args, "time") /\ typeof(args.f["time"]) # "string" THEN FALSE
    ELSE TRUE

checkWeekOfYearArgs(args) ==
    /\ typeofArgs(args) = "object"
    /\ args.kind # "null"
    /\ (IF has(args, "date") THEN typeof(args.f["date"]) = "string" ELSE TRUE)

---------------------------------------------------------------------------
(* The CallTool request handler *)

ToolNames ==
    {"current_time", "relative_time", "days_in_month", "get_timestamp",
     "convert_time", "get_week_year"}

Envelope(success, text) ==
    [success |-> success, content |-> <<[type |-> "text", text |-> text]>>]

\* what a block of the handler did: it returned an envelope or threw msg;
\* invoked lists the calculation functions it called, conv is what
\* convertTime returned to it
Returned(env, invoked, r) ==
    [kind |-> "return", envelope |-> env, msg |-> "", invoked |-> invoked,
     reads |-> r.reads, trace |-> r.trace, conv |-> r.val]
Threw(msg, invoked, reads, trace) ==
    [kind |-> "throw", envelope |-> Envelope(FALSE, ""), msg |-> msg, invoked |-> invoked,
     reads |-> reads, trace |-> trace, conv |-> ""]

InvalidArguments(name) == Threw("Invalid arguments for tool: [" \o name \o "]", <<>>, <<>>, <<>>)

\* args.k: reading a property of undefined or null throws a TypeError
propertyThrows(args) == args.kind \in {"undefined", "null"}

TypeErrorText(args, k) ==
    "Cannot read properties of " \o args.kind \o " (reading '" \o k \o "')"

\* the try block: the switch over the tool name
tryBlock(name, args, clk) ==
    CASE name = "current_time" ->
            IF ~checkCurrentTimeArgs(args) THEN InvalidArguments(name)
            ELSE Const(getCurrentTime(args.f["format"], args.f["timezone"], clk),
                       LAMBDA result :
                    IF ~result.ok
                    THEN Threw(result.msg, <<"getCurrentTime">>, result.reads, result.trace)
                    ELSE Returned(
                            Envelope(TRUE, "Current UTC time is " \o result.val.utc
                                \o ", and the time in " \o result.val.timezone \o " is "
                                \o result.val.local \o "."),
                            <<"getCurrentTime">>, result))
      [] name = "relative_time" ->
            IF ~checkRelativeTimeArgs(args) THEN InvalidArguments(name)
            ELSE Const(getRelativeTime(args.f["time"], clk), LAMBDA result :
                    Returned(Envelope(TRUE, result.val), <<"getRelativeTime">>, result))
      [] name = "days_in_month" ->
            IF ~checkDaysInMonthArgs(args) THEN InvalidArguments(name)
            ELSE Const(getDaysInMonth(args.f["date"], clk), LAMBDA result :
                    Returned(
                        Envelope(TRUE, "The number of days in month is "
                            \o NumberText(result.val) \o "."),
                        <<"getDaysInMonth">>, result))
      [] name = "get_timestamp" ->
            IF ~checkTimestampArgs(args) THEN InvalidArguments(name)
            ELSE IF propertyThrows(args) THEN Threw(TypeErrorText(args, "time"), <<>>, <<>>, <<>>)
            ELSE Const(getTimestamp(args.f["time"], clk), LAMBDA result :
                    Returned(
                        Envelope(TRUE,
                            IF truthy(args.f["time"])
                            THEN "The timestamp of " \o Text(args.f["time"].s)
                                    \o " (parsed as UTC) is " \o result.val \o " ms."
                            ELSE "The current timestamp is " \o result.val \o " ms."),
                        <<"getTimestamp">>, result))
      [] name = "convert_time" ->
            IF ~checkConvertTimeArgs(args) THEN InvalidArguments(name)
            ELSE LET sourceTimezone == args.f["sourceTimezone"]
                     targetTimezone == args.f["targetTimezone"]
                     time == args.f["time"]
                     timeContext ==
                        IF truthy(time) /\ trim(time.s) # <<>>
                        THEN "At " \o Text(time.s) \o ", the"
                        ELSE "The current"
                 IN Const(convertTime(sourceTimezone, targetTimezone, time, clk),
                          LAMBDA result :
                    IF ~result.ok
                    THEN Threw(result.msg, <<"convertTime">>, result.reads, result.trace)
                    ELSE Returned(
                            Envelope(TRUE, timeContext \o " time in " \o Text(sourceTimezone.s)
                                \o " is " \o result.val.sourceTime \o ", and in "
                                \o Text(targetTimezone.s) \o " is " \o result.val.targetTime
                                \o ". Time difference: " \o result.val.timeDiff \o "."),
                            <<"convertTime">>, result))
      [] name = "get_week_year" ->
            IF ~checkWeekOfYearArgs(args) THEN InvalidArguments(name)
            ELSE Const(getWeekOfYear(args.f["date"], clk), LAMBDA result :
                    Returned(
                        Envelope(TRUE, "The week of the year is " \o NumberText(result.val.week)
                            \o ", and the isoWeek of the year is "
                            \o NumberText(result.val.isoWeek) \o "."),
                        <<"getWeekOfYear">>, result))
      [] OTHER -> Threw("Unknown tool: " \o name, <<>>, <<>>, <<>>)

catchBlockRethrow(t) == t

catchBlockGeneric(t) ==
    [t EXCEPT !.kind = "return", !.envelope = Envelope(FALSE, "Internal error")]

\* the catch block: the error's message in a failure envelope
catchBlock(t) ==
    [t EXCEPT !.kind = "return", !.envelope = Envelope(FALSE, t.msg)]

CallToolHandler(name, args, clk) ==
    Const(tryBlock(name, args, clk), LAMBDA t :
       IF t.kind = "return" THEN t ELSE catchBlock(t))

---------------------------------------------------------------------------
(* The invocations the transport may deliver *)

ZoneValues ==
    {Absent, JNumber, JString(Empty), JString(Blank), JString(UTC), JString(Kolkata),
     JString(Kathmandu), JString(NewYork), JString(BogusZone)}

TimeValues ==
    {Absent, JNull, JString(Empty), JString(Blank), JString(T0), JString(T1),
     JString(T2), JString(Garbage)}

DateValues ==
    {Absent, JNumber, JString(Empty), JString(D1), JString(D2), JString(Garbage)}

FormatValues == {Absent, JNumber, JString(FullPattern), JString(ShortPattern)}

TimezoneValues == {Absent, JNull, JString(Empty), JString(Kolkata), JString(BogusZone)}

NonMappings == {ArgsUndefined, ArgsNull, ArgsPrimitive, ArgsArray}

\* the six names, and names the switch has no case for
Names == ToolNames \cup {"no_such_tool", "CURRENT_TIME"}

ArgsFor(name) ==
    NonMappings \cup
    CASE name = "current_time" ->
            {ArgsObject([NoFields EXCEPT !["format"] = fv, !["timezone"] = tv]) :
                fv \in FormatValues, tv \in TimezoneValues}
      [] name \in {"relative_time", "get_timestamp"} ->
            {ArgsObject([NoFields EXCEPT !["time"] = v]) : v \in TimeValues}
      [] name \in {"days_in_month", "get_week_year"} ->
            {ArgsObject([NoFields EXCEPT !["date"] = v]) : v \in DateValues}
      [] name = "convert_time" ->
            {ArgsObject([NoFields EXCEPT !["sourceTimezone"] = sv,
                                         !["targetTimezone"] = tv,
                                         !["time"] = v]) :
                sv \in ZoneValues, tv \in ZoneValues, v \in TimeValues}
      [] OTHER -> {ArgsObject(NoFields),
                   ArgsObject([NoFields EXCEPT !["time"] = JString(T1)])}

ConnectFailures == {"EPIPE", "transport already started"}

\* one second before daylight saving time ends in America/New_York
ClockStart == EpochOf(2025, 11, 2, 5, 59, 59)

ClockEnd == ClockStart + MaxElapsed

---------------------------------------------------------------------------
(* State machine *)

NoCall ==
    [stage |-> "none", name |-> "", args |-> ArgsUndefined, clk |-> <<>>,
     h |-> Threw("", <<>>, <<>>, <<>>)]

Init ==
    /\ phase = "init"
    /\ exitCode = -1
    /\ stdout = <<>>
    /\ stderr = <<>>
    /\ now = ClockStart
    /\ nCalls = 0
    /\ nReplies = 0
    /\ last = NoCall
    /\ fmtIn = 0
    /\ fmtOut = ""
    /\ inflight = [id \in 1..MaxCalls |-> NoCall]

\* runServer up to the await of server.connect
StartServer ==
    /\ phase = "init"
    /\ stdout' = Append(stdout, "Starting Time MCP server...\n")
    /\ phase' = "connecting"
    /\ UNCHANGED <<exitCode, stderr, now, nCalls, nReplies, last, fmtIn, fmtOut, inflight>>

\* server.connect resolves
ConnectOk ==
    /\ phase = "connecting"
    /\ phase' = "running"
    /\ UNCHANGED <<exitCode, stdout, stderr, now, nCalls, nReplies, last, fmtIn, fmtOut, inflight>>

ConnectFailExitFirst ==
    /\ phase = "connecting"
    /\ exitCode' = 1
    /\ phase' = "failed"
    /\ UNCHANGED <<stdout, stderr, now, nCalls, nReplies, last, fmtIn, fmtOut, inflight>>

\* server.connect rejects: the catch block of runServer writes the diagnostic
ConnectFail ==
    /\ phase = "connecting"
    /\ \E message \in ConnectFailures :
          stderr' = Append(stderr, "Error starting Time MCP server: " \o message \o "\n")
    /\ phase' = "failed"
    /\ UNCHANGED <<exitCode, stdout, now, nCalls, nReplies, last, fmtIn, fmtOut, inflight>>

\* ... and then calls process.exit(1)
ProcessExit ==
    /\ phase = "failed"
    /\ exitCode' = 1
    /\ phase' = "exited"
    /\ UNCHANGED <<stdout, stderr, now, nCalls, nReplies, last, fmtIn, fmtOut, inflight>>

\* the transport delivers a tools/call request (one request at a time: the
\* handler keeps nothing from one invocation to the next)
Deliver ==
    /\ phase = "running"
    /\ last.stage = "none"
    /\ nCalls < MaxCalls
    /\ \E name \in Names :
       \E args \in ArgsFor(name) :
          last' = [NoCall EXCEPT !.stage = "delivered", !.name = name, !.args = args]
    /\ nCalls' = nCalls + 1
    /\ UNCHANGED <<phase, exitCode, stdout, stderr, now, nReplies, fmtIn, fmtOut, inflight>>

\* the CallTool handler runs to its end on the delivered request; the clock
\* may move between its readings
CallTool ==
    /\ phase = "running"
    /\ last.stage = "delivered"
    /\ \E r1 \in now..ClockEnd :
       \E r2 \in r1..ClockEnd :
       \E h \in {CallToolHandler(last.name, last.args, <<r1, r2>>)} :
             /\ last' = [last EXCEPT !.stage = "handled", !.clk = <<r1, r2>>, !.h = h]
             /\ nReplies' = nReplies + (IF h.kind = "return" THEN 1 ELSE 0)
             /\ now' = r2
    /\ UNCHANGED <<phase, exitCode, stdout, stderr, nCalls, fmtIn, fmtOut, inflight>>

\* the response is serialized and the invocation's values are discarded
Respond ==
    /\ phase = "running"
    /\ last.stage = "handled"
    /\ last' = NoCall
    /\ UNCHANGED <<phase, exitCode, stdout, stderr, now, nCalls, nReplies, fmtIn, fmtOut, inflight>>

\* time passes
Tick ==
    /\ phase # "exited"
    /\ now < ClockEnd
    /\ now' = now + 1
    /\ UNCHANGED <<phase, exitCode, stdout, stderr, nCalls, nReplies, last, fmtIn, fmtOut, inflight>>

Next ==
    \/ StartServer \/ ConnectOk \/ ConnectFail \/ ProcessExit
    \/ Deliver \/ CallTool \/ Respond \/ Tick

Spec == Init /\ [][Next]_vars

\* the catch block of runServer runs on: process.exit follows the write
SpecStartup == Spec /\ WF_vars(ProcessExit)

\* formatTimeDifference on its own, over every difference up to MaxDiff minutes
InitFormat ==
    /\ Init!1 /\ Init!2 /\ Init!3 /\ Init!4 /\ Init!5 /\ Init!6 /\ Init!7 /\ Init!8
    /\ fmtIn \in (-MaxDiff)..MaxDiff
    /\ fmtOut = ""
    /\ Init!11

FormatStep ==
    /\ fmtOut = ""
    /\ fmtOut' = formatTimeDifference(fmtIn)
    /\ UNCHANGED <<phase, exitCode, stdout, stderr, now, nCalls, nReplies, last, fmtIn, inflight>>

NextFormat == FormatStep

SpecFormat == InitFormat /\ [][NextFormat]_vars

\* the invocations dispatched concurrently
ConcurrentCalls ==
    {<<"convert_time", ArgsObject([NoFields EXCEPT !["sourceTimezone"] = JString(Kolkata),
                                                   !["targetTimezone"] = JString(NewYork),
                                                   !["time"] = JString(T2)])>>,
     <<"convert_time", ArgsObject([NoFields EXCEPT !["sourceTimezone"] = JString(Kolkata),
                                                   !["targetTimezone"] = JString(NewYork)])>>,
     <<"current_time", ArgsObject([NoFields EXCEPT !["format"] = JString(FullPattern),
                                                   !["timezone"] = JString(Kathmandu)])>>}

InFlight == {id \in 1..MaxCalls : inflight[id].stage # "none"}

\* the transport delivers a request while others are still in flight; the
\* request id is its number
DeliverConcurrent ==
    /\ phase = "running"
    /\ nCalls < MaxCalls
    /\ Cardinality(InFlight) < MaxInFlight
    /\ \E call \in ConcurrentCalls :
          inflight' = [inflight EXCEPT ![nCalls + 1] =
                          [NoCall EXCEPT !.stage = "delivered", !.name = call[1],
                                         !.args = call[2]]]
    /\ nCalls' = nCalls + 1
    /\ UNCHANGED <<phase, exitCode, stdout, stderr, now, nReplies, last, fmtIn, fmtOut>>

RequestOfLatest(id, requests) ==
    requests[CHOOSE j \in 1..MaxCalls :
                /\ requests[j].stage # "none"
                /\ \A k \in 1..MaxCalls : requests[k].stage # "none" => k <= j]

\* the request parameter of the handler's run for a request id
RequestOf(id, requests) == requests[id]

\* one run of the handler, on any request in flight (the handler has no
\* await: a run is not interleaved with another); time that passes after the
\* run's last reading of the clock is left to Tick
CallToolConcurrent ==
    /\ phase = "running"
    /\ \E id \in {i \in InFlight : inflight[i].stage = "delivered"} :
       \E r1 \in now..ClockEnd :
       \E r2 \in r1..ClockEnd :
       \E request \in {RequestOf(id, inflight)} :
       \E h \in {CallToolHandler(request.name, request.args, <<r1, r2>>)} :
             /\ Len(h.reads) < 2 => r2 = r1
             /\ inflight' = [inflight EXCEPT ![id].stage = "handled",
                                              ![id].clk = <<r1, r2>>, ![id].h = h]
             /\ nReplies' = nReplies + (IF h.kind = "return" THEN 1 ELSE 0)
             /\ now' = r2
    /\ UNCHANGED <<phase, exitCode, stdout, stderr, nCalls, last, fmtIn, fmtOut>>

\* the responses are sent in any order
RespondConcurrent ==
    /\ phase = "running"
    /\ \E id \in InFlight :
          /\ inflight[id].stage = "handled"
          /\ inflight' = [inflight EXCEPT ![id] = NoCall]
    /\ UNCHANGED <<phase, exitCode, stdout, stderr, now, nCalls, nReplies, last, fmtIn, fmtOut>>

NextConcurrent ==
    \/ StartServer \/ ConnectOk \/ ConnectFail \/ ProcessExit
    \/ DeliverConcurrent \/ CallToolConcurrent \/ RespondConcurrent \/ Tick

SpecConcurrent == Init /\ [][NextConcurrent]_vars

---------------------------------------------------------------------------
(* Vocabulary of the properties *)

Handled == last.stage = "handled"

Success == last.h.envelope.success

ReplyText == last.h.envelope.content[1].text

IsMapping == last.args.kind = "object"

Arg(k) == last.args.f[k]

IsString(k) == IsMapping /\ Arg(k).t = "string"

IsBlank(s) == \A i \in 1..Len(s) : s[i] \in Whitespace

\* the arguments of a convert_time invocation have the declared shape
ConvertShape ==
    /\ last.name = "convert_time"
    /\ IsString("sourceTimezone")
    /\ IsString("targetTimezone")
    /\ Arg("time").t \in {"absent", "string"}

\* ... and name an instant explicitly
ExplicitTime == Arg("time").t = "string" /\ ~IsBlank(Arg("time").s)

Unparsable(s) == ~parseDate(s).valid

ZonesUsable ==
    /\ Arg("sourceTimezone").s \in KnownZones
    /\ Arg("targetTimezone").s \in KnownZones

\* YYYY-MM-DD HH:mm:ss of instant t seen in a zone
LocalText(t, zone) == FormatFields(FullPattern, Civil(t + 60 * ZoneOffset(zone, t)))

RequiredFields(name) ==
    CASE name = "current_time" -> {"format"}
      [] name = "relative_time" -> {"time"}
      [] name = "convert_time" -> {"sourceTimezone", "targetTimezone"}
      [] OTHER -> {}

DeclaredFields(name) ==
    CASE name = "current_time" -> {"format", "timezone"}
      [] name \in {"relative_time", "get_timestamp"} -> {"time"}
      [] name \in {"days_in_month", "get_week_year"} -> {"date"}
      [] name = "convert_time" -> {"sourceTimezone", "targetTimezone", "time"}
      [] OTHER -> {}

Malformed ==
    \/ \E k \in RequiredFields(last.name) : ~IsMapping \/ Arg(k).t = "absent"
    \/ \E k \in DeclaredFields(last.name) :
          IsMapping /\ Arg(k).t \notin {"absent", "string"}

---------------------------------------------------------------------------
(* Properties *)

\* C1: every invocation the handler has run gave exactly one envelope
\* {success: boolean, content: [one text item]}, nothing was thrown out of the
\* handler, and the process did not exit
C1_OneEnvelope ==
    /\ nReplies = nCalls - (IF last.stage = "delivered" THEN 1 ELSE 0)
    /\ Handled =>
          /\ last.h.kind = "return"
          /\ DOMAIN last.h.envelope = {"success", "content"}
          /\ Success \in BOOLEAN
          /\ Len(last.h.envelope.content) = 1
          /\ DOMAIN last.h.envelope.content[1] = {"type", "text"}
          /\ last.h.envelope.content[1].type = "text"
    /\ nCalls > 0 => phase = "running" /\ exitCode = -1

C1_Witness ==
    /\ Handled
    /\ last.name = "get_timestamp"
    /\ last.args = ArgsNull
    /\ ~Success
    /\ nReplies = 2

\* C2: malformed arguments of any of the six tools (a required field missing,
\* a declared field of a non-string type) give success=false with the text
\* Invalid arguments for tool: [<name>]
C2_MalformedRejected ==
    (Handled /\ last.name \in ToolNames /\ Malformed) =>
        /\ ~Success
        /\ ReplyText = "Invalid arguments for tool: [" \o last.name \o "]"

C2_Witness ==
    /\ Handled
    /\ last.name = "convert_time"
    /\ IsString("targetTimezone")
    /\ Arg("sourceTimezone") = JNumber
    /\ ReplyText = "Invalid arguments for tool: [convert_time]"

\* C3: days_in_month, get_timestamp and get_week_year, called with an empty
\* argument mapping, succeed and compute from a reading of the clock
C3_EmptyMappingSucceeds ==
    (Handled /\ last.name \in {"days_in_month", "get_timestamp", "get_week_year"}
        /\ last.args = ArgsObject(NoFields)) =>
        /\ Success
        /\ last.h.reads # <<>>

\* the instant a successful convert_time resolved
ResolvedInstant ==
    IF ExplicitTime THEN parseDate(Arg("time").s).s ELSE last.h.reads[1]

ConvertSucceeded == Handled /\ last.name = "convert_time" /\ Success

\* C4: the difference a successful convert_time reports is the target offset
\* minus the source offset at the resolved instant: "+" with its magnitude
\* when the target is ahead, "-" with its magnitude when it is behind
C4_DifferenceIsTargetMinusSource ==
    ConvertSucceeded =>
        LET offS == ZoneOffset(Arg("sourceTimezone").s, ResolvedInstant)
            offT == ZoneOffset(Arg("targetTimezone").s, ResolvedInstant)
            reported == last.h.conv.timeDiff
        IN /\ offT > offS => reported = formatTimeDifference(offT - offS)
           /\ offT < offS => reported = formatTimeDifference(-(offS - offT))
           /\ offT = offS => reported = "+0 hours"
           /\ (offT < offS) <=> (\E m \in 1..720 : reported = formatTimeDifference(-m))

C4_Witness ==
    /\ ConvertSucceeded
    /\ Arg("sourceTimezone").s = Kolkata
    /\ Arg("targetTimezone").s = NewYork
    /\ last.h.conv.timeDiff = "-10 hours 30 minutes"

\* C5: formatTimeDifference writes a sign, the whole hours of |d| and, when
\* it is not zero, the minute remainder, each unit singular exactly for 1
C5_FormatTimeDifference ==
    fmtOut # "" =>
        LET a == IF fmtIn < 0 THEN -fmtIn ELSE fmtIn
            h == a \div 60
            m == a % 60
            hourPart == ToString(h) \o (IF h = 1 THEN " hour" ELSE " hours")
            minutePart == ToString(m) \o (IF m = 1 THEN " minute" ELSE " minutes")
        IN /\ fmtOut = (IF fmtIn < 0 THEN "-" ELSE "+") \o hourPart
                          \o (IF m = 0 THEN "" ELSE " " \o minutePart)
           /\ fmtIn = 330 => fmtOut = "+5 hours 30 minutes"
           /\ fmtIn = 300 => fmtOut = "+5 hours"
           /\ fmtIn = -300 => fmtOut = "-5 hours"
           /\ fmtIn = -301 => fmtOut = "-5 hours 1 minute"

C5_Witness == fmtIn = -301 /\ fmtOut = "-5 hours 1 minute"

\* C6: a successful convert_time resolves one instant (the parsed string, or
\* one reading of the clock) and both local times are that instant seen in
\* the two zones, so their difference is the reported difference
C6_OneSharedInstant ==
    ConvertSucceeded =>
        /\ Len(last.h.reads) = (IF ExplicitTime THEN 0 ELSE 1)
        /\ \E t \in (IF ExplicitTime THEN {parseDate(Arg("time").s).s}
                     ELSE {last.clk[1], last.clk[2]}) :
              LET ls == t + 60 * ZoneOffset(Arg("sourceTimezone").s, t)
                  lt == t + 60 * ZoneOffset(Arg("targetTimezone").s, t)
              IN /\ last.h.conv.sourceTime = FormatFields(FullPattern, Civil(ls))
                 /\ last.h.conv.targetTime = FormatFields(FullPattern, Civil(lt))
                 /\ (lt - ls) % 60 = 0
                 /\ last.h.conv.timeDiff = formatTimeDifference((lt - ls) \div 60)

C6_Witness ==
    /\ ConvertSucceeded
    /\ Arg("time") = Absent
    /\ last.clk[1] # last.clk[2]
    /\ Arg("sourceTimezone").s = NewYork
    /\ Arg("targetTimezone").s = NewYork
    /\ last.h.conv.timeDiff = "+0 hours"

ConvertFailureCauses ==
    {"Source and target timezones are required and cannot be empty",
     "Invalid timezone conversion",
     "Invalid time value provided: " \o Text(Arg("time").s),
     "Invalid time zone specified: " \o Text(Arg("sourceTimezone").s),
     "Invalid time zone specified: " \o Text(Arg("targetTimezone").s)}

\* C7: a convert_time that fails while computing (a blank zone, a zone the
\* library rejects, an unparsable time) gives success=false with
\* Failed to convert time from <source> to <target>: <cause>
C7_ConvertFailureNamesZones ==
    (Handled /\ ConvertShape) =>
        /\ (\/ IsBlank(Arg("sourceTimezone").s)
            \/ IsBlank(Arg("targetTimezone").s)
            \/ ~ZonesUsable
            \/ (ExplicitTime /\ Unparsable(Arg("time").s))) => ~Success
        /\ ~Success =>
              \E cause \in ConvertFailureCauses :
                 ReplyText = "Failed to convert time from " \o Text(Arg("sourceTimezone").s)
                                \o " to " \o Text(Arg("targetTimezone").s) \o ": " \o cause

C7_Witness ==
    /\ Handled /\ ConvertShape
    /\ Arg("sourceTimezone").s = Empty
    /\ Arg("targetTimezone").s = Kolkata
    /\ ReplyText = "Failed to convert time from  to Asia/Kolkata: "
                      \o "Source and target timezones are required and cannot be empty"

\* C8 as stated: a blank time string makes convert_time fail
C8_BlankTimeFails ==
    (Handled /\ ConvertShape /\ Arg("time").t = "string" /\ IsBlank(Arg("time").s)) =>
        ~Success

\* C8 amended: a blank time string is taken as no time: with usable zones the
\* call succeeds on one reading of the clock and reports the current time;
\* otherwise it fails as it does for the zones alone
C8_BlankTimeIsNow ==
    (Handled /\ ConvertShape /\ Arg("time").t = "string" /\ IsBlank(Arg("time").s)) =>
        IF ZonesUsable
        THEN /\ Success
             /\ last.h.reads = <<last.clk[1]>>
             /\ ReplyText =
                   "The current time in " \o Text(Arg("sourceTimezone").s) \o " is "
                      \o LocalText(last.clk[1], Arg("sourceTimezone").s) \o ", and in "
                      \o Text(Arg("targetTimezone").s) \o " is "
                      \o LocalText(last.clk[1], Arg("targetTimezone").s)
                      \o ". Time difference: " \o last.h.conv.timeDiff \o "."
        ELSE ~Success

C8_Witness ==
    /\ Handled /\ ConvertShape
    /\ Arg("time") = JString(Blank)
    /\ Arg("sourceTimezone").s = Kolkata
    /\ Arg("targetTimezone").s = Kathmandu
    /\ Success

\* C9: a non-blank time string that does not parse makes convert_time fail
\* before any zone conversion, offset reading or formatting; no success comes
\* from an invalid instant
C9_UnparsableRejectedFirst ==
    (Handled /\ ConvertShape /\ ExplicitTime /\ Unparsable(Arg("time").s)) =>
        /\ ~Success
        /\ last.h.trace = <<>>

C9_Witness ==
    /\ Handled /\ ConvertShape
    /\ Arg("time") = JString(Garbage)
    /\ ZonesUsable
    /\ ~Success
    /\ last.h.invoked = <<"convertTime">>

\* C10: relative_time and get_timestamp, given a time string that does not
\* parse as a date, give success=false
C10_UnparsableFails ==
    (Handled /\ last.name \in {"relative_time", "get_timestamp"}
        /\ IsString("time") /\ Unparsable(Arg("time").s)) =>
        ~Success

\* the argument check the handler applies for a tool name
ArgumentCheck(name, args) ==
    CASE name = "current_time" -> checkCurrentTimeArgs(args)
      [] name = "relative_time" -> checkRelativeTimeArgs(args)
      [] name = "days_in_month" -> checkDaysInMonthArgs(args)
      [] name = "get_timestamp" -> checkTimestampArgs(args)
      [] name = "convert_time" -> checkConvertTimeArgs(args)
      [] name = "get_week_year" -> checkWeekOfYearArgs(args)
      [] OTHER -> FALSE

CalculationOf(name) ==
    CASE name = "current_time" -> "getCurrentTime"
      [] name = "relative_time" -> "getRelativeTime"
      [] name = "days_in_month" -> "getDaysInMonth"
      [] name = "get_timestamp" -> "getTimestamp"
      [] name = "convert_time" -> "convertTime"
      [] name = "get_week_year" -> "getWeekOfYear"
      [] OTHER -> ""

\* the time and timezone fields of the invocation are strings (of any
\* content) or, where optional, absent, and nothing else is wrong with it
StringsGiven ==
    /\ IsMapping
    /\ CASE last.name = "current_time" ->
                IsString("format") /\ Arg("timezone").t \in {"absent", "string"}
          [] last.name = "relative_time" -> IsString("time")
          [] last.name = "get_timestamp" -> Arg("time").t \in {"absent", "string"}
          [] last.name = "convert_time" -> ConvertShape
          [] OTHER -> FALSE

\* C11: validation precedes computation: when the tool's argument check fails
\* or the name is not one of the six, the failure is produced with no
\* calculation function invoked, no clock reading and no library step; and the
\* check accepts any string as a time or a timezone, so that the calculation
\* is invoked (and is where a bad zone or time is found)
C11_ValidationPrecedesComputation ==
    Handled =>
        /\ (last.name \notin ToolNames \/ ~ArgumentCheck(last.name, last.args)) =>
              /\ ~Success
              /\ last.h.invoked = <<>>
              /\ last.h.reads = <<>>
              /\ last.h.trace = <<>>
              /\ ReplyText = (IF last.name \in ToolNames
                              THEN "Invalid arguments for tool: [" \o last.name \o "]"
                              ELSE "Unknown tool: " \o last.name)
        /\ StringsGiven =>
              /\ ArgumentCheck(last.name, last.args)
              /\ last.h.invoked = <<CalculationOf(last.name)>>

C11_Witness ==
    /\ Handled
    /\ last.name = "relative_time"
    /\ Arg("time") = JNull
    /\ ~ArgumentCheck(last.name, last.args)
    /\ ~Success
    /\ last.h.invoked = <<>>

\* C12: a name that is none of the six tool names gives success=false with
\* the text Unknown tool: <name>, whatever the arguments
C12_UnknownTool ==
    (Handled /\ last.name \notin ToolNames) =>
        /\ ~Success
        /\ ReplyText = "Unknown tool: " \o last.name

C12_Witness ==
    /\ Handled
    /\ last.name = "CURRENT_TIME"
    /\ last.args = ArgsObject([NoFields EXCEPT !["time"] = JString(T1)])
    /\ ReplyText = "Unknown tool: CURRENT_TIME"

KolkataToKathmandu ==
    /\ Handled /\ ConvertShape
    /\ Arg("sourceTimezone").s = Kolkata
    /\ Arg("targetTimezone").s = Kathmandu
    /\ ~(ExplicitTime /\ Unparsable(Arg("time").s))

\* the instant from which Nepal is at UTC+5:45
NepalQuarterHour == EpochOf(1985, 12, 31, 18, 30, 0)

HandledIds == {id \in 1..MaxCalls : inflight[id].stage = "handled"}

ExplicitConvert(q) ==
    /\ q.name = "convert_time"
    /\ q.args.kind = "object"
    /\ q.args.f["time"].t = "string"
    /\ ~IsBlank(q.args.f["time"].s)

\* C14: two convert_time invocations with the same explicit time and the same
\* zone pair give the same output, whatever the clock read at each and
\* whatever was invoked between them
C14_SameExplicitCallSameOutput ==
    \A i, j \in HandledIds :
        (ExplicitConvert(inflight[i]) /\ inflight[j].name = inflight[i].name
            /\ inflight[j].args = inflight[i].args) =>
            /\ inflight[j].h.envelope = inflight[i].h.envelope
            /\ inflight[j].h.conv = inflight[i].h.conv

C14_Witness ==
    /\ nCalls = 3
    /\ HandledIds = {1, 3}
    /\ inflight[2].stage = "none"
    /\ ExplicitConvert(inflight[1])
    /\ inflight[3].args = inflight[1].args
    /\ inflight[3].name = inflight[1].name
    /\ inflight[1].h.envelope.success
    /\ inflight[1].clk[1] < inflight[3].clk[1]

DiagnosticWritten ==
    /\ Len(stderr) = 1
    /\ \E message \in ConnectFailures :
          stderr[1] = "Error starting Time MCP server: " \o message \o "\n"

\* what holds of the exit status in every state
ExitOnlyAtStartup ==
    /\ exitCode \in {-1, 1}
    /\ exitCode = 1 => (phase = "exited" /\ DiagnosticWritten /\ nCalls = 0 /\ nReplies = 0)
    /\ phase \in {"failed", "exited"} => DiagnosticWritten
    /\ phase = "running" => (exitCode = -1 /\ stderr = <<>>)
    /\ nCalls > 0 => phase = "running"

\* C16: when the connection of the transport fails at startup, a diagnostic
\* line is written to stderr and then the process exits with status 1, the
\* write coming first; the process exits with a non-zero status in no other
\* case, and never once a tool call has been delivered
C16_StartupFailureExits ==
    /\ []ExitOnlyAtStartup
    /\ (phase = "failed") ~> (phase = "exited" /\ exitCode = 1)

C16_Witness ==
    /\ phase = "exited"
    /\ exitCode = 1
    /\ stderr = <<"Error starting Time MCP server: EPIPE\n">>
    /\ stdout = <<"Starting Time MCP server...\n">>

\* C17: get_timestamp invoked with no argument mapping (undefined or null),
\* which checkTimestampArgs accepts, gives a success envelope with the text
\* The current timestamp is <ms> ms., <ms> being a reading of the clock
C17_AbsentArgumentsGiveNow ==
    (Handled /\ last.name = "get_timestamp" /\ last.args \in {ArgsUndefined, ArgsNull}) =>
        /\ checkTimestampArgs(last.args)
        /\ Success
        /\ \E r \in {last.clk[1], last.clk[2]} :
              ReplyText = "The current timestamp is " \o ToString(r) \o "000 ms."

\* the text of a sign, an hour count and a minute remainder
Rendering(sign, h, m) ==
    sign \o ToString(h) \o (IF h = 1 THEN " hour" ELSE " hours")
        \o (IF m = 0 THEN ""
            ELSE " " \o ToString(m) \o (IF m = 1 THEN " minute" ELSE " minutes"))

\* C18: the string formatTimeDifference gives for d is the text of a sign s,
\* an hour count h and a minute remainder m with h*60 + m = |d|, 0 <= m < 60
\* and s = "-" exactly when d < 0; no other difference gives the same string,
\* so d can be read back from it; and 0 gives "+0 hours"
C18_SignHoursMinutes ==
    fmtOut # "" =>
        /\ \E sign \in {"+", "-"}, h \in 0..(MaxDiff \div 60), m \in 0..59 :
              /\ fmtOut = Rendering(sign, h, m)
              /\ h * 60 + m = Abs(fmtIn)
              /\ (sign = "-") <=> (fmtIn < 0)
        /\ \A d \in (-MaxDiff)..MaxDiff : formatTimeDifference(d) = fmtOut => d = fmtIn
        /\ \A sign \in {"+", "-"}, h \in 0..(MaxDiff \div 60), m \in 0..59 :
              fmtOut = Rendering(sign, h, m) =>
                  fmtIn = (IF sign = "-" THEN -(h * 60 + m) ELSE h * 60 + m)
        /\ fmtIn = 0 => fmtOut = "+0 hours"
        /\ fmtOut # "-0 hours"

C18_Witness == fmtIn = 0 /\ fmtOut = "+0 hours"

\* convertTime with the two zones of the invocation exchanged, same time
SwappedConversion ==
    convertTime(Arg("targetTimezone"), Arg("sourceTimezone"), Arg("time"), last.clk)

\* C19: for a successful convert_time with an explicit instant, the
\* conversion with the zones exchanged succeeds too, reports the negated
\* difference and the two local times exchanged; with equal offsets both
\* report "+0 hours" and the two local times are the same
C19_SwapNegates ==
    (ConvertSucceeded /\ ExplicitTime) =>
        LET d == ZoneOffset(Arg("targetTimezone").s, ResolvedInstant)
                    - ZoneOffset(Arg("sourceTimezone").s, ResolvedInstant)
            swapped == SwappedConversion
        IN /\ swapped.ok
           /\ last.h.conv.timeDiff = formatTimeDifference(d)
           /\ swapped.val.timeDiff = formatTimeDifference(-d)
           /\ swapped.val.sourceTime = last.h.conv.targetTime
           /\ swapped.val.targetTime = last.h.conv.sourceTime
           /\ d = 0 =>
                 /\ last.h.conv.timeDiff = "+0 hours"
                 /\ swapped.val.timeDiff = "+0 hours"
                 /\ last.h.conv.sourceTime = last.h.conv.targetTime

C19_Witness ==
    /\ ConvertSucceeded
    /\ Arg("time") = JString(T2)
    /\ Arg("sourceTimezone").s = NewYork
    /\ Arg("targetTimezone").s = Kathmandu
    /\ last.h.conv.timeDiff = "+10 hours 45 minutes"
    /\ SwappedConversion.val.timeDiff = "-10 hours 45 minutes"
    /\ SwappedConversion.val.targetTime = "2025-11-02 01:00:00"

====
